---- MODULE Spec2Model ----
(***************************************************************************)
(* Model of chikage.  Spec is the rotor subsystem: Rot3f64                  *)
(* (src/rot/rot3f64.rs) together with the Vec3f64 operations it consumes   *)
(* and the Mat4f64 it exports.  LinAlg is the vector and matrix types:     *)
(* Vec4f64, the cross products, Mat2f64, Mat3f64 and Mat4f64 (src/vec,     *)
(* src/mat).                                                               *)
(*                                                                         *)
(* f64 values are modelled in exact arithmetic.  A value is a record       *)
(* [n, d, r] that stands for (n / d) * sqrt(r): n an integer, d > 0 and    *)
(* coprime to n, r >= 1 square-free (r = 1 for a rational).  The form is   *)
(* canonical, so record equality is numeric equality.  d = 0 encodes the   *)
(* non-finite values: NaN is [0, 0, 1], +inf is [1, 0, 1], -inf is         *)
(* [-1, 0, 1].  Rounding and the sign of zero are not modelled.            *)
(* Every operation is computed term by term as the source computes it.     *)
(***************************************************************************)
EXTENDS Integers, FiniteSets

Abs(i) == IF i < 0 THEN -i ELSE i

RECURSIVE Gcd(_, _)
Gcd(a, b) == IF b = 0 THEN a ELSE Gcd(b, a % b)

(* m = k * k * r with r square-free, by trial division from p upwards;     *)
(* k and r accumulate the parts found so far.                              *)
RECURSIVE SqSplit(_, _, _, _)
SqSplit(m, p, k, r) ==
    IF p * p > m THEN <<k, r * m>>
    ELSE IF m % (p * p) = 0 THEN SqSplit(m \div (p * p), p, k * p, r)
    ELSE IF m % p = 0 THEN SqSplit(m \div p, p + 1, k, r * p)
    ELSE SqSplit(m, p + 1, k, r)

(* ----------------------------- f64 values ----------------------------- *)

NaN == [n |-> 0, d |-> 0, r |-> 1]

Inf(sign) == [n |-> sign, d |-> 0, r |-> 1]

IsNaN(x) == x.d = 0 /\ x.n = 0

IsInf(x) == x.d = 0 /\ x.n # 0

IsFinite(x) == x.d > 0

Sign(x) == IF x.n > 0 THEN 1 ELSE IF x.n < 0 THEN -1 ELSE 0

(* The finite value (n / d) * sqrt(r) in canonical form; d > 0, r square-free. *)
Val(n, d, r) ==
    IF n = 0 THEN [n |-> 0, d |-> 1, r |-> 1]
    ELSE LET g == Gcd(Abs(n), d)
         IN  [n |-> n \div g, d |-> d \div g, r |-> r]

(* The literal n / d. *)
F(n, d) == Val(n, d, 1)

Zero == F(0, 1)

One == F(1, 1)

(* unary minus *)
Neg(x) == [x EXCEPT !.n = -x.n]

(* f64 multiplication *)
Mul(x, y) ==
    IF IsNaN(x) \/ IsNaN(y) THEN NaN
    ELSE IF IsInf(x) \/ IsInf(y)
        THEN IF Sign(x) = 0 \/ Sign(y) = 0 THEN NaN ELSE Inf(Sign(x) * Sign(y))
    ELSE IF x.n = 0 \/ y.n = 0 THEN Zero
    ELSE LET g1 == Gcd(Abs(x.n), y.d)
             g2 == Gcd(Abs(y.n), x.d)
             gr == Gcd(x.r, y.r)
             nn == (x.n \div g1) * (y.n \div g2) * gr
             dd == (x.d \div g2) * (y.d \div g1)
         IN  Val(nn, dd, (x.r \div gr) * (y.r \div gr))

(* f64 addition; two finite non-zero terms must carry the same radical *)
Add(x, y) ==
    IF IsNaN(x) \/ IsNaN(y) THEN NaN
    ELSE IF IsInf(x) /\ IsInf(y) THEN (IF x.n = y.n THEN x ELSE NaN)
    ELSE IF IsInf(x) THEN x
    ELSE IF IsInf(y) THEN y
    ELSE IF x.n = 0 THEN y
    ELSE IF y.n = 0 THEN x
    ELSE CASE x.r = y.r ->
              LET g == Gcd(x.d, y.d)
                  l == (x.d \div g) * y.d
              IN  Val(x.n * (l \div x.d) + y.n * (l \div y.d), l, x.r)

(* f64 subtraction *)
Sub(x, y) == Add(x, Neg(y))

(* 1 / x for finite non-zero x: 1 / ((n/d) sqrt r) = (d / (n r)) sqrt r *)
Recip(x) == Val(Sign(x) * x.d, Abs(x.n) * x.r, x.r)

(* f64 division *)
Div(x, y) ==
    IF IsNaN(x) \/ IsNaN(y) THEN NaN
    ELSE IF IsInf(x) THEN (IF IsInf(y) THEN NaN
                           ELSE Inf(Sign(x) * (IF Sign(y) < 0 THEN -1 ELSE 1)))
    ELSE IF IsInf(y) THEN Zero
    ELSE IF y.n = 0 THEN (IF x.n = 0 THEN NaN ELSE Inf(Sign(x)))
    ELSE Mul(x, Recip(y))

(* f64::sqrt; a finite argument must be rational *)
Sqrt(x) ==
    IF IsNaN(x) \/ Sign(x) < 0 THEN NaN
    ELSE IF IsInf(x) THEN x
    ELSE IF x.n = 0 THEN Zero
    ELSE CASE x.r = 1 ->
              LET sn == SqSplit(x.n, 2, 1, 1)
                  sd == SqSplit(x.d, 2, 1, 1)
              IN  Val(sn[1], sd[1] * sd[2], sn[2] * sd[2])

(* n1/d1 < n2/d2 for d1, d2 > 0, by comparing continued fractions (no products) *)
RECURSIVE LessQ(_, _, _, _)
LessQ(n1, d1, n2, d2) ==
    LET q1 == n1 \div d1
        q2 == n2 \div d2
        r1 == n1 % d1
        r2 == n2 % d2
    IN  IF q1 # q2 THEN q1 < q2
        ELSE IF r2 = 0 THEN FALSE
        ELSE IF r1 = 0 THEN TRUE
        ELSE LessQ(d2, r2, d1, r1)

(* f64 `<`; false when either side is NaN *)
Less(x, y) ==
    IF IsNaN(x) \/ IsNaN(y) THEN FALSE
    ELSE IF IsInf(x) \/ IsInf(y)
        THEN (IF IsInf(x) /\ IsInf(y) THEN x.n < y.n
              ELSE IF IsInf(x) THEN x.n < 0 ELSE y.n > 0)
    ELSE IF x.r = y.r \/ x.n = 0 \/ y.n = 0 THEN LessQ(x.n, x.d, y.n, y.d)
    ELSE IF Sign(x) # Sign(y) THEN Sign(x) < Sign(y)
    ELSE LET x2 == Mul(x, x)
             y2 == Mul(y, y)
         IN  IF Sign(x) > 0 THEN LessQ(x2.n, x2.d, y2.n, y2.d)
             ELSE LessQ(y2.n, y2.d, x2.n, x2.d)

(* f64 `<=`; false when either side is NaN *)
LessEq(x, y) == (x = y /\ ~IsNaN(x)) \/ Less(x, y)

(* (lo..hi).contains(&x) of a half-open Range<f64> *)
RangeContains(lo, hi, x) == LessEq(lo, x) /\ Less(x, hi)

(* ------------------------------ Vec3f64 ------------------------------- *)

Vec3f64_new(x, y, z) == [x |-> x, y |-> y, z |-> z]

magnitude(self) ==
    Sqrt(Add(Add(Mul(self.x, self.x), Mul(self.y, self.y)), Mul(self.z, self.z)))

dot(self, other) ==
    Add(Add(Mul(self.x, other.x), Mul(self.y, other.y)), Mul(self.z, other.z))

(* impl Add<Vec3f64> for Vec3f64 *)
vec_add(self, rhs) ==
    Vec3f64_new(Add(self.x, rhs.x), Add(self.y, rhs.y), Add(self.z, rhs.z))

(* impl Div<f64> for Vec3f64 *)
vec_div(self, scalar) ==
    Vec3f64_new(Div(self.x, scalar), Div(self.y, scalar), Div(self.z, scalar))

(* ------------------------------ Rot3f64 ------------------------------- *)

Rot3f64(s, xy, yz, zx) == [s |-> s, xy |-> xy, yz |-> yz, zx |-> zx]

(* The outcome of a call that a failed debug_assert! stopped. *)
Panic == [panic |-> "Construction of a rotor requires normalized vectors!"]

IsPanic(res) == res = Panic

(* Mutant of identity: the scalar part negated. *)
identity_negative == Rot3f64(Neg(One), Zero, Zero, Zero)

(* Mutant of identity: a bivector component set. *)
identity_xy_one == Rot3f64(One, One, Zero, Zero)

identity == Rot3f64(One, Zero, Zero, Zero)

(* Mutant of new_assert: only the magnitude of a is tested. *)
new_assert_checks_a_only(a, b) ==
    RangeContains(F(999, 1000), F(1001, 1000), magnitude(a))

(* The condition of the debug_assert! in new. *)
new_assert(a, b) ==
    /\ RangeContains(F(999, 1000), F(1001, 1000), magnitude(a))
    /\ RangeContains(F(999, 1000), F(1001, 1000), magnitude(b))

(* Mutant of new: the operands of every bivector component exchanged. *)
new_operands_swapped(debug, a, b) ==
    IF debug /\ ~new_assert(a, b) THEN Panic
    ELSE Rot3f64(
           Add(Add(Mul(b.x, a.x), Mul(b.y, a.y)), Mul(b.z, a.z)),
           Sub(Mul(b.y, a.x), Mul(b.x, a.y)),
           Sub(Mul(b.z, a.y), Mul(b.y, a.z)),
           Sub(Mul(b.x, a.z), Mul(b.z, a.x)))

(* Mutant of new: xy computed with + for -. *)
new_xy_plus(debug, a, b) ==
    IF debug /\ ~new_assert(a, b) THEN Panic
    ELSE Rot3f64(
           Add(Add(Mul(b.x, a.x), Mul(b.y, a.y)), Mul(b.z, a.z)),
           Add(Mul(b.x, a.y), Mul(b.y, a.x)),
           Sub(Mul(b.y, a.z), Mul(b.z, a.y)),
           Sub(Mul(b.z, a.x), Mul(b.x, a.z)))

(* Mutant of new: the yz component left at zero. *)
new_yz_zero(debug, a, b) ==
    IF debug /\ ~new_assert(a, b) THEN Panic
    ELSE Rot3f64(
           Add(Add(Mul(b.x, a.x), Mul(b.y, a.y)), Mul(b.z, a.z)),
           Sub(Mul(b.x, a.y), Mul(b.y, a.x)),
           Zero,
           Sub(Mul(b.z, a.x), Mul(b.x, a.z)))

(* Mutant of new: yz computed with + for -, symmetric in a and b. *)
new_yz_plus(debug, a, b) ==
    IF debug /\ ~new_assert(a, b) THEN Panic
    ELSE Rot3f64(
           Add(Add(Mul(b.x, a.x), Mul(b.y, a.y)), Mul(b.z, a.z)),
           Sub(Mul(b.x, a.y), Mul(b.y, a.x)),
           Add(Mul(b.y, a.z), Mul(b.z, a.y)),
           Sub(Mul(b.z, a.x), Mul(b.x, a.z)))

(* Rot3f64::new in a build with (debug) or without debug assertions. *)
new(debug, a, b) ==
    IF debug /\ ~new_assert(a, b) THEN Panic
    ELSE Rot3f64(
           Add(Add(Mul(b.x, a.x), Mul(b.y, a.y)), Mul(b.z, a.z)),
           Sub(Mul(b.x, a.y), Mul(b.y, a.x)),
           Sub(Mul(b.y, a.z), Mul(b.z, a.y)),
           Sub(Mul(b.z, a.x), Mul(b.x, a.z)))

(* The condition of the debug_assert! in new_exact. *)
new_exact_assert(a, b) ==
    /\ RangeContains(F(9999, 10000), F(10001, 10000), magnitude(a))
    /\ RangeContains(F(9999, 10000), F(10001, 10000), magnitude(b))

(* The test `a ~= -b` of new_exact. *)
is_antiparallel(a, b) ==
    RangeContains(F(-100001, 100000), F(-99999, 100000), dot(a, b))

(* Mutant of bisector: b handed on as it came, so that new_exact is new. *)
bisector_keeps_b(a, b, perp) == b

(* Mutant of bisector: the perpendicular is not substituted for b. *)
bisector_no_substitute(a, b, perp) ==
    IF is_antiparallel(a, b) THEN b
    ELSE LET a_plus_b == vec_add(a, b)
         IN  vec_div(a_plus_b, magnitude(a_plus_b))

(* The second argument new_exact hands to new; perp is what a.perpendicular() returned. *)
bisector(a, b, perp) ==
    IF is_antiparallel(a, b) THEN perp
    ELSE LET a_plus_b == vec_add(a, b)
         IN  vec_div(a_plus_b, magnitude(a_plus_b))

(* Rot3f64::new_exact; perp is what a.perpendicular() returns when it is called. *)
new_exact(debug, a, b, perp) ==
    IF debug /\ ~new_exact_assert(a, b) THEN Panic
    ELSE new(debug, a, bisector(a, b, perp))

(* Mutant of invert: s negated with the bivector components. *)
invert_negates_s(self) ==
    [s |-> Neg(self.s), xy |-> Neg(self.xy), yz |-> Neg(self.yz), zx |-> Neg(self.zx)]

(* Mutant of invert: xy left as it is. *)
invert_skips_xy(self) ==
    [self EXCEPT !.yz = Neg(self.yz), !.zx = Neg(self.zx)]

(* Mutant of invert: zx left as it is. *)
invert_skips_zx(self) ==
    [self EXCEPT !.xy = Neg(self.xy), !.yz = Neg(self.yz)]

invert(self) ==
    [self EXCEPT !.xy = Neg(self.xy), !.yz = Neg(self.yz), !.zx = Neg(self.zx)]

inverted(self) == LET result == self IN invert(result)

(* Mutant of rotate_vec: the terms of txyz left out of the result. *)
rotate_vec_drops_txyz(self, v) ==
    LET tx == Sub(Add(Mul(self.s, v.x), Mul(self.xy, v.y)), Mul(self.zx, v.z))
        ty == Add(Sub(Mul(self.s, v.y), Mul(self.xy, v.x)), Mul(self.yz, v.z))
        tz == Add(Sub(Mul(self.s, v.z), Mul(self.yz, v.y)), Mul(self.zx, v.x))
    IN  Vec3f64_new(
          Sub(Add(Mul(tx, self.s), Mul(ty, self.xy)), Mul(tz, self.zx)),
          Add(Sub(Mul(ty, self.s), Mul(tx, self.xy)), Mul(tz, self.yz)),
          Sub(Add(Mul(tz, self.s), Mul(tx, self.zx)), Mul(ty, self.yz)))

rotate_vec(self, v) ==
    LET tx == Sub(Add(Mul(self.s, v.x), Mul(self.xy, v.y)), Mul(self.zx, v.z))
        ty == Add(Sub(Mul(self.s, v.y), Mul(self.xy, v.x)), Mul(self.yz, v.z))
        tz == Add(Sub(Mul(self.s, v.z), Mul(self.yz, v.y)), Mul(self.zx, v.x))
        txyz == Add(Add(Mul(self.xy, v.z), Mul(self.yz, v.x)), Mul(self.zx, v.y))
    IN  Vec3f64_new(
          Add(Sub(Add(Mul(tx, self.s), Mul(ty, self.xy)), Mul(tz, self.zx)), Mul(txyz, self.yz)),
          Add(Add(Sub(Mul(ty, self.s), Mul(tx, self.xy)), Mul(tz, self.yz)), Mul(txyz, self.zx)),
          Add(Sub(Add(Mul(tz, self.s), Mul(tx, self.zx)), Mul(ty, self.yz)), Mul(txyz, self.xy)))

rotated_vec(self, v) == rotate_vec(self, v)

(* Mutant of append: the term self.xy * r.zx of yz subtracted. *)
append_yz_minus(self, r) ==
    LET s == Sub(Sub(Sub(Mul(self.s, r.s), Mul(self.xy, r.xy)), Mul(self.yz, r.yz)), Mul(self.zx, r.zx))
        xy == Add(Sub(Add(Mul(self.s, r.xy), Mul(self.xy, r.s)), Mul(self.yz, r.zx)), Mul(self.zx, r.yz))
        yz == Sub(Sub(Add(Mul(self.s, r.yz), Mul(self.yz, r.s)), Mul(self.xy, r.zx)), Mul(self.zx, r.xy))
        zx == Add(Sub(Add(Mul(self.s, r.zx), Mul(self.zx, r.s)), Mul(self.xy, r.yz)), Mul(self.yz, r.xy))
    IN  Rot3f64(s, xy, yz, zx)

(* Mutant of append: the products of two bivector components left out of   *)
(* xy, yz and zx, which makes the product commutative.                      *)
append_no_cross_terms(self, r) ==
    LET s == Sub(Sub(Sub(Mul(self.s, r.s), Mul(self.xy, r.xy)), Mul(self.yz, r.yz)), Mul(self.zx, r.zx))
        xy == Add(Mul(self.s, r.xy), Mul(self.xy, r.s))
        yz == Add(Mul(self.s, r.yz), Mul(self.yz, r.s))
        zx == Add(Mul(self.s, r.zx), Mul(self.zx, r.s))
    IN  Rot3f64(s, xy, yz, zx)

(* Mutant of append: the first - of s written +. *)
append_s_plus(self, r) ==
    LET s == Sub(Sub(Add(Mul(self.s, r.s), Mul(self.xy, r.xy)), Mul(self.yz, r.yz)), Mul(self.zx, r.zx))
        xy == Add(Sub(Add(Mul(self.s, r.xy), Mul(self.xy, r.s)), Mul(self.yz, r.zx)), Mul(self.zx, r.yz))
        yz == Sub(Add(Add(Mul(self.s, r.yz), Mul(self.yz, r.s)), Mul(self.xy, r.zx)), Mul(self.zx, r.xy))
        zx == Add(Sub(Add(Mul(self.s, r.zx), Mul(self.zx, r.s)), Mul(self.xy, r.yz)), Mul(self.yz, r.xy))
    IN  Rot3f64(s, xy, yz, zx)

(* Mutant of append: zx computed from self.s * r.xy for self.s * r.zx. *)
append_zx_from_xy(self, r) ==
    LET s == Sub(Sub(Sub(Mul(self.s, r.s), Mul(self.xy, r.xy)), Mul(self.yz, r.yz)), Mul(self.zx, r.zx))
        xy == Add(Sub(Add(Mul(self.s, r.xy), Mul(self.xy, r.s)), Mul(self.yz, r.zx)), Mul(self.zx, r.yz))
        yz == Sub(Add(Add(Mul(self.s, r.yz), Mul(self.yz, r.s)), Mul(self.xy, r.zx)), Mul(self.zx, r.xy))
        zx == Add(Sub(Add(Mul(self.s, r.xy), Mul(self.zx, r.s)), Mul(self.xy, r.yz)), Mul(self.yz, r.xy))
    IN  Rot3f64(s, xy, yz, zx)

append(self, r) ==
    LET s == Sub(Sub(Sub(Mul(self.s, r.s), Mul(self.xy, r.xy)), Mul(self.yz, r.yz)), Mul(self.zx, r.zx))
        xy == Add(Sub(Add(Mul(self.s, r.xy), Mul(self.xy, r.s)), Mul(self.yz, r.zx)), Mul(self.zx, r.yz))
        yz == Sub(Add(Add(Mul(self.s, r.yz), Mul(self.yz, r.s)), Mul(self.xy, r.zx)), Mul(self.zx, r.xy))
        zx == Add(Sub(Add(Mul(self.s, r.zx), Mul(self.zx, r.s)), Mul(self.xy, r.yz)), Mul(self.yz, r.xy))
    IN  Rot3f64(s, xy, yz, zx)

appended(self, r) == LET result == self IN append(result, r)

(* s*s + xy*xy + yz*yz + zx*zx, as normalize computes it *)
mag_sqrd(self) ==
    Add(Add(Add(Mul(self.s, self.s), Mul(self.xy, self.xy)), Mul(self.yz, self.yz)),
        Mul(self.zx, self.zx))

(* Mutant of normalize: the square root forgotten. *)
normalize_no_sqrt(self) ==
    LET mag == mag_sqrd(self)
    IN  Rot3f64(Div(self.s, mag), Div(self.xy, mag), Div(self.yz, mag), Div(self.zx, mag))

normalize(self) ==
    LET mag == Sqrt(mag_sqrd(self))
    IN  Rot3f64(Div(self.s, mag), Div(self.xy, mag), Div(self.yz, mag), Div(self.zx, mag))

(* ------------------------- Vec4f64 and Mat4f64 ------------------------ *)

(* Vec4f64::new as rotation_mat calls it, with four components. *)
Vec4f64_new(x, y, z, w) == <<x, y, z, w>>

(* Mat4f64::new_row_major as rotation_mat calls it: the four rows, top to bottom. *)
new_row_major(r0, r1, r2, r3) == <<r0, r1, r2, r3>>

(* Mutant of rotation_mat: the rotated axes stored as rows. *)
rotation_mat_axes_as_rows(self) ==
    LET new_x == rotated_vec(self, Vec3f64_new(One, Zero, Zero))
        new_y == rotated_vec(self, Vec3f64_new(Zero, One, Zero))
        new_z == rotated_vec(self, Vec3f64_new(Zero, Zero, One))
    IN  new_row_major(
          Vec4f64_new(new_x.x, new_x.y, new_x.z, Zero),
          Vec4f64_new(new_y.x, new_y.y, new_y.z, Zero),
          Vec4f64_new(new_z.x, new_z.y, new_z.z, Zero),
          Vec4f64_new(Zero, Zero, Zero, One))

(* Mutant of rotation_mat: the last row zero. *)
rotation_mat_w_zero(self) ==
    LET new_x == rotated_vec(self, Vec3f64_new(One, Zero, Zero))
        new_y == rotated_vec(self, Vec3f64_new(Zero, One, Zero))
        new_z == rotated_vec(self, Vec3f64_new(Zero, Zero, One))
    IN  new_row_major(
          Vec4f64_new(new_x.x, new_y.x, new_z.x, Zero),
          Vec4f64_new(new_x.y, new_y.y, new_z.y, Zero),
          Vec4f64_new(new_x.z, new_y.z, new_z.z, Zero),
          Vec4f64_new(Zero, Zero, Zero, Zero))

(* Mutant of rotation_mat: new_y.x and new_x.y exchanged. *)
rotation_mat_xy_exchanged(self) ==
    LET new_x == rotated_vec(self, Vec3f64_new(One, Zero, Zero))
        new_y == rotated_vec(self, Vec3f64_new(Zero, One, Zero))
        new_z == rotated_vec(self, Vec3f64_new(Zero, Zero, One))
    IN  new_row_major(
          Vec4f64_new(new_x.x, new_x.y, new_z.x, Zero),
          Vec4f64_new(new_y.x, new_y.y, new_z.y, Zero),
          Vec4f64_new(new_x.z, new_y.z, new_z.z, Zero),
          Vec4f64_new(Zero, Zero, Zero, One))

rotation_mat(self) ==
    LET new_x == rotated_vec(self, Vec3f64_new(One, Zero, Zero))
        new_y == rotated_vec(self, Vec3f64_new(Zero, One, Zero))
        new_z == rotated_vec(self, Vec3f64_new(Zero, Zero, One))
    IN  new_row_major(
          Vec4f64_new(new_x.x, new_y.x, new_z.x, Zero),
          Vec4f64_new(new_x.y, new_y.y, new_z.y, Zero),
          Vec4f64_new(new_x.z, new_y.z, new_z.z, Zero),
          Vec4f64_new(Zero, Zero, Zero, One))

(* ------------------- Vec4f64, Vec3f32 and the matrices ------------------ *)
(* A Vec4f64 or a Vec3f32 is its coords array, a MatNf64 its rows array,   *)
(* both as tuples: index i of the source is index i + 1 here.               *)

(* Vec4f64::new *)
Vec4f64_new_coords(coords) == coords

(* Vec4f64::zero *)
Vec4f64_zero == Vec4f64_new_coords(<<Zero, Zero, Zero, Zero>>)

(* Vec4f64::ones *)
Vec4f64_ones == Vec4f64_new_coords(<<One, One, One, One>>)

(* Vec4f64::mag_squared *)
Vec4f64_mag_squared(self) ==
    Add(Add(Add(Mul(self[1], self[1]), Mul(self[2], self[2])), Mul(self[3], self[3])),
        Mul(self[4], self[4]))

(* Vec4f64::mag *)
Vec4f64_mag(self) == Sqrt(Vec4f64_mag_squared(self))

(* impl Div<f64> for Vec4f64 *)
Vec4f64_div(self, scalar) ==
    <<Div(self[1], scalar), Div(self[2], scalar), Div(self[3], scalar), Div(self[4], scalar)>>

(* impl DivAssign<f64> for Vec4f64 *)
Vec4f64_div_assign(self, scalar) ==
    <<Div(self[1], scalar), Div(self[2], scalar), Div(self[3], scalar), Div(self[4], scalar)>>

(* Mutant of norm: the zero vector is left as it is. *)
norm_guards_zero(self) ==
    IF Vec4f64_mag(self) = Zero THEN self ELSE Vec4f64_div_assign(self, Vec4f64_mag(self))

(* Vec4f64::norm: the receiver after the call *)
norm(self) == LET m == Vec4f64_mag(self) IN Vec4f64_div_assign(self, m)

(* Vec4f64::normed *)
normed(self) == LET m == Vec4f64_mag(self) IN Vec4f64_div(self, m)

(* Mutant of cross: the left-handed product. *)
cross_left_handed(self, right) ==
    [x |-> Sub(Mul(self.z, right.y), Mul(self.y, right.z)),
     y |-> Sub(Mul(self.z, right.x), Mul(self.x, right.z)),
     z |-> Sub(Mul(self.x, right.y), Mul(self.y, right.x))]

(* Vec3f64::cross *)
cross(self, right) ==
    [x |-> Sub(Mul(self.y, right.z), Mul(self.z, right.y)),
     y |-> Sub(Mul(self.z, right.x), Mul(self.x, right.z)),
     z |-> Sub(Mul(self.x, right.y), Mul(self.y, right.x))]

(* Vec3f32::new *)
Vec3f32_new(coords) == coords

(* Vec3f32::cross *)
Vec3f32_cross(self, rhs) ==
    Vec3f32_new(
      <<Sub(Mul(self[2], rhs[3]), Mul(self[3], rhs[2])),
        Sub(Mul(self[3], rhs[1]), Mul(self[1], rhs[3])),
        Sub(Mul(self[1], rhs[2]), Mul(self[2], rhs[1]))>>)

(* Mat2f64::new: the rows as given. *)
Mat2f64_new(rows) == rows

(* Mat2f64::transposed, the cells in the order of the source *)
Mat2f64_transposed(self) ==
    << <<self[1][1],
         self[2][1]>>,
       <<self[1][2],
         self[2][2]>> >>

(* Mat2f64::new_from_cols *)
Mat2f64_new_from_cols(cols) == Mat2f64_transposed(Mat2f64_new(cols))

(* Mat2f64::transpose: *self = self.transposed() *)
Mat2f64_transpose(self) == Mat2f64_transposed(self)

(* Mutant of Mat2f64_mul: the product taken element by element. *)
Mat2f64_mul_elementwise(self, rhs) ==
    << <<Mul(self[1][1], rhs[1][1]), Mul(self[1][2], rhs[1][2])>>,
       <<Mul(self[2][1], rhs[2][1]), Mul(self[2][2], rhs[2][2])>> >>

(* impl Mul<Mat2f64> for Mat2f64 *)
Mat2f64_mul(self, rhs) ==
    Mat2f64_new(
      << <<Add(Mul(self[1][1], rhs[1][1]), Mul(self[1][2], rhs[2][1])),
           Add(Mul(self[1][1], rhs[1][2]), Mul(self[1][2], rhs[2][2]))>>,
         <<Add(Mul(self[2][1], rhs[1][1]), Mul(self[2][2], rhs[2][1])),
           Add(Mul(self[2][1], rhs[1][2]), Mul(self[2][2], rhs[2][2]))>> >>)

(* impl MulAssign<Mat2f64> for Mat2f64: *self = *self * rhs *)
Mat2f64_mul_assign(self, rhs) == Mat2f64_mul(self, rhs)

(* Mat3f64::new: the rows as given. *)
Mat3f64_new(rows) == rows

(* Mat3f64::transposed *)
Mat3f64_transposed(self) ==
    << <<self[1][1],
         self[2][1],
         self[3][1]>>,
       <<self[1][2],
         self[2][2],
         self[3][2]>>,
       <<self[1][3],
         self[2][3],
         self[3][3]>> >>

(* Mutant of Mat3f64_new_from_cols: the columns stored as rows. *)
Mat3f64_new_from_cols_as_rows(cols) == Mat3f64_new(cols)

(* Mat3f64::new_from_cols *)
Mat3f64_new_from_cols(cols) == Mat3f64_transposed(Mat3f64_new(cols))

(* Mat3f64::transpose: *self = self.transposed() *)
Mat3f64_transpose(self) == Mat3f64_transposed(self)

(* Mutant of Mat3f64_mul: rows of a against rows of b. *)
Mat3f64_mul_rows_by_rows(a, b) ==
    << <<Add(Add(Mul(a[1][1], b[1][1]), Mul(a[1][2], b[1][2])), Mul(a[1][3], b[1][3])),
         Add(Add(Mul(a[1][1], b[2][1]), Mul(a[1][2], b[2][2])), Mul(a[1][3], b[2][3])),
         Add(Add(Mul(a[1][1], b[3][1]), Mul(a[1][2], b[3][2])), Mul(a[1][3], b[3][3]))>>,
       <<Add(Add(Mul(a[2][1], b[1][1]), Mul(a[2][2], b[1][2])), Mul(a[2][3], b[1][3])),
         Add(Add(Mul(a[2][1], b[2][1]), Mul(a[2][2], b[2][2])), Mul(a[2][3], b[2][3])),
         Add(Add(Mul(a[2][1], b[3][1]), Mul(a[2][2], b[3][2])), Mul(a[2][3], b[3][3]))>>,
       <<Add(Add(Mul(a[3][1], b[1][1]), Mul(a[3][2], b[1][2])), Mul(a[3][3], b[1][3])),
         Add(Add(Mul(a[3][1], b[2][1]), Mul(a[3][2], b[2][2])), Mul(a[3][3], b[2][3])),
         Add(Add(Mul(a[3][1], b[3][1]), Mul(a[3][2], b[3][2])), Mul(a[3][3], b[3][3]))>> >>

(* impl Mul<Mat3f64> for Mat3f64 *)
Mat3f64_mul(a, b) ==
    Mat3f64_new(
      << <<Add(Add(Mul(a[1][1], b[1][1]), Mul(a[1][2], b[2][1])), Mul(a[1][3], b[3][1])),
           Add(Add(Mul(a[1][1], b[1][2]), Mul(a[1][2], b[2][2])), Mul(a[1][3], b[3][2])),
           Add(Add(Mul(a[1][1], b[1][3]), Mul(a[1][2], b[2][3])), Mul(a[1][3], b[3][3]))>>,
         <<Add(Add(Mul(a[2][1], b[1][1]), Mul(a[2][2], b[2][1])), Mul(a[2][3], b[3][1])),
           Add(Add(Mul(a[2][1], b[1][2]), Mul(a[2][2], b[2][2])), Mul(a[2][3], b[3][2])),
           Add(Add(Mul(a[2][1], b[1][3]), Mul(a[2][2], b[2][3])), Mul(a[2][3], b[3][3]))>>,
         <<Add(Add(Mul(a[3][1], b[1][1]), Mul(a[3][2], b[2][1])), Mul(a[3][3], b[3][1])),
           Add(Add(Mul(a[3][1], b[1][2]), Mul(a[3][2], b[2][2])), Mul(a[3][3], b[3][2])),
           Add(Add(Mul(a[3][1], b[1][3]), Mul(a[3][2], b[2][3])), Mul(a[3][3], b[3][3]))>> >>)

(* impl MulAssign<Mat3f64> for Mat3f64: *self = *self * rhs *)
Mat3f64_mul_assign(self, rhs) == Mat3f64_mul(self, rhs)

(* Mat4f64::new: the rows as given. *)
Mat4f64_new(rows) == rows

(* Mat4f64::zero *)
Mat4f64_zero ==
    << <<Zero, Zero, Zero, Zero>>,
       <<Zero, Zero, Zero, Zero>>,
       <<Zero, Zero, Zero, Zero>>,
       <<Zero, Zero, Zero, Zero>> >>

(* Mat4f64::identity *)
Mat4f64_identity ==
    << <<One, Zero, Zero, Zero>>,
       <<Zero, One, Zero, Zero>>,
       <<Zero, Zero, One, Zero>>,
       <<Zero, Zero, Zero, One>> >>

(* Mat4f64::transposed *)
Mat4f64_transposed(self) ==
    << <<self[1][1],
         self[2][1],
         self[3][1],
         self[4][1]>>,
       <<self[1][2],
         self[2][2],
         self[3][2],
         self[4][2]>>,
       <<self[1][3],
         self[2][3],
         self[3][3],
         self[4][3]>>,
       <<self[1][4],
         self[2][4],
         self[3][4],
         self[4][4]>> >>

(* Mat4f64::new_from_cols *)
Mat4f64_new_from_cols(cols) == Mat4f64_transposed(Mat4f64_new(cols))

(* Mutant of Mat4f64_transpose: the receiver left as it is. *)
Mat4f64_transpose_noop(self) == self

(* Mat4f64::transpose: *self = self.transposed() *)
Mat4f64_transpose(self) == Mat4f64_transposed(self)

(* impl Mul<Mat4f64> for Mat4f64 *)
Mat4f64_mul(a, b) ==
    Mat4f64_new(
      << <<Add(Add(Add(Mul(a[1][1], b[1][1]), Mul(a[1][2], b[2][1])), Mul(a[1][3], b[3][1])), Mul(a[1][4], b[4][1])),
           Add(Add(Add(Mul(a[1][1], b[1][2]), Mul(a[1][2], b[2][2])), Mul(a[1][3], b[3][2])), Mul(a[1][4], b[4][2])),
           Add(Add(Add(Mul(a[1][1], b[1][3]), Mul(a[1][2], b[2][3])), Mul(a[1][3], b[3][3])), Mul(a[1][4], b[4][3])),
           Add(Add(Add(Mul(a[1][1], b[1][4]), Mul(a[1][2], b[2][4])), Mul(a[1][3], b[3][4])), Mul(a[1][4], b[4][4]))>>,
         <<Add(Add(Add(Mul(a[2][1], b[1][1]), Mul(a[2][2], b[2][1])), Mul(a[2][3], b[3][1])), Mul(a[2][4], b[4][1])),
           Add(Add(Add(Mul(a[2][1], b[1][2]), Mul(a[2][2], b[2][2])), Mul(a[2][3], b[3][2])), Mul(a[2][4], b[4][2])),
           Add(Add(Add(Mul(a[2][1], b[1][3]), Mul(a[2][2], b[2][3])), Mul(a[2][3], b[3][3])), Mul(a[2][4], b[4][3])),
           Add(Add(Add(Mul(a[2][1], b[1][4]), Mul(a[2][2], b[2][4])), Mul(a[2][3], b[3][4])), Mul(a[2][4], b[4][4]))>>,
         <<Add(Add(Add(Mul(a[3][1], b[1][1]), Mul(a[3][2], b[2][1])), Mul(a[3][3], b[3][1])), Mul(a[3][4], b[4][1])),
           Add(Add(Add(Mul(a[3][1], b[1][2]), Mul(a[3][2], b[2][2])), Mul(a[3][3], b[3][2])), Mul(a[3][4], b[4][2])),
           Add(Add(Add(Mul(a[3][1], b[1][3]), Mul(a[3][2], b[2][3])), Mul(a[3][3], b[3][3])), Mul(a[3][4], b[4][3])),
           Add(Add(Add(Mul(a[3][1], b[1][4]), Mul(a[3][2], b[2][4])), Mul(a[3][3], b[3][4])), Mul(a[3][4], b[4][4]))>>,
         <<Add(Add(Add(Mul(a[4][1], b[1][1]), Mul(a[4][2], b[2][1])), Mul(a[4][3], b[3][1])), Mul(a[4][4], b[4][1])),
           Add(Add(Add(Mul(a[4][1], b[1][2]), Mul(a[4][2], b[2][2])), Mul(a[4][3], b[3][2])), Mul(a[4][4], b[4][2])),
           Add(Add(Add(Mul(a[4][1], b[1][3]), Mul(a[4][2], b[2][3])), Mul(a[4][3], b[3][3])), Mul(a[4][4], b[4][3])),
           Add(Add(Add(Mul(a[4][1], b[1][4]), Mul(a[4][2], b[2][4])), Mul(a[4][3], b[3][4])), Mul(a[4][4], b[4][4]))>> >>)

(* impl MulAssign<Mat4f64> for Mat4f64: *self = *self * rhs *)
Mat4f64_mul_assign(self, rhs) == Mat4f64_mul(self, rhs)

(* Mutant of Mat4f64_mul_vec: the vector taken as a row, v * M. *)
Mat4f64_mul_vec_as_row(self, v) ==
    << Add(Add(Add(Mul(self[1][1], v[1]), Mul(self[2][1], v[2])), Mul(self[3][1], v[3])), Mul(self[4][1], v[4])),
       Add(Add(Add(Mul(self[1][2], v[1]), Mul(self[2][2], v[2])), Mul(self[3][2], v[3])), Mul(self[4][2], v[4])),
       Add(Add(Add(Mul(self[1][3], v[1]), Mul(self[2][3], v[2])), Mul(self[3][3], v[3])), Mul(self[4][3], v[4])),
       Add(Add(Add(Mul(self[1][4], v[1]), Mul(self[2][4], v[2])), Mul(self[3][4], v[3])), Mul(self[4][4], v[4])) >>

(* impl Mul<Vec4f64> for Mat4f64 *)
Mat4f64_mul_vec(self, v) ==
    Vec4f64_new_coords(
      << Add(Add(Add(Mul(self[1][1], v[1]), Mul(self[1][2], v[2])), Mul(self[1][3], v[3])), Mul(self[1][4], v[4])),
         Add(Add(Add(Mul(self[2][1], v[1]), Mul(self[2][2], v[2])), Mul(self[2][3], v[3])), Mul(self[2][4], v[4])),
         Add(Add(Add(Mul(self[3][1], v[1]), Mul(self[3][2], v[2])), Mul(self[3][3], v[3])), Mul(self[3][4], v[4])),
         Add(Add(Add(Mul(self[4][1], v[1]), Mul(self[4][2], v[2])), Mul(self[4][3], v[3])), Mul(self[4][4], v[4])) >>)

(* The size of a matrix value: which of Mat2f64, Mat3f64, Mat4f64 it is. *)
Dim(m) == Cardinality(DOMAIN m)

(* The method the type of the receiver selects. *)
mat_new_from_cols(cols) ==
    CASE Dim(cols) = 2 -> Mat2f64_new_from_cols(cols)
      [] Dim(cols) = 3 -> Mat3f64_new_from_cols(cols)
      [] Dim(cols) = 4 -> Mat4f64_new_from_cols(cols)

transposed(self) ==
    CASE Dim(self) = 2 -> Mat2f64_transposed(self)
      [] Dim(self) = 3 -> Mat3f64_transposed(self)
      [] Dim(self) = 4 -> Mat4f64_transposed(self)

transpose(self) ==
    CASE Dim(self) = 2 -> Mat2f64_transpose(self)
      [] Dim(self) = 3 -> Mat3f64_transpose(self)
      [] Dim(self) = 4 -> Mat4f64_transpose(self)

mat_mul(self, rhs) ==
    CASE Dim(self) = 2 -> Mat2f64_mul(self, rhs)
      [] Dim(self) = 3 -> Mat3f64_mul(self, rhs)
      [] Dim(self) = 4 -> Mat4f64_mul(self, rhs)

mat_mul_assign(self, rhs) ==
    CASE Dim(self) = 2 -> Mat2f64_mul_assign(self, rhs)
      [] Dim(self) = 3 -> Mat3f64_mul_assign(self, rhs)
      [] Dim(self) = 4 -> Mat4f64_mul_assign(self, rhs)

(* ------------------------------ Bounds -------------------------------- *)

(* In-place mutations (append, invert, normalize) applied to one rotor after *)
(* its construction.                                                         *)
MaxDepth == 2

(* ------------------------------ Inputs -------------------------------- *)

V(x, y, z) == Vec3f64_new(F(x, 1), F(y, 1), F(z, 1))

(* V5(x, y, z) is (x/5, y/5, z/5). *)
V5(x, y, z) == Vec3f64_new(F(x, 5), F(y, 5), F(z, 5))

(* Unit vectors with rational components. *)
UnitVecs ==
    { V(1, 0, 0), V(0, 1, 0), V(0, 0, 1), V(-1, 0, 0), V(0, 0, -1),
      V5(3, 4, 0), V5(-3, -4, 0), V5(4, -3, 0), V5(0, 3, 4) }

(* A unit vector at 0.26 degrees from -x: (-(k*k - 1), 2k, 0) / (k*k + 1) for k = 448. *)
NearMinusX == Vec3f64_new(F(-200703, 200705), F(896, 200705), Zero)

(* A vector of magnitude 10648/10647 = 1.0000939, inside the range           *)
(* 0.9999..1.0001 that new_exact asserts; its square 1.0001878 is outside   *)
(* 0.99999..1.00001.                                                        *)
AlmostUnit == Vec3f64_new(F(10648, 10647), Zero, Zero)

(* The vector -v. *)
Opposite(v) == Vec3f64_new(Neg(v.x), Neg(v.y), Neg(v.z))

(* Pairs of unit vectors: equal, at right angles, oblique, opposite. *)
UnitPairs ==
    { <<V(1, 0, 0), V(1, 0, 0)>>,    <<V5(3, 4, 0), V5(3, 4, 0)>>,
      <<V(1, 0, 0), V(0, 1, 0)>>,    <<V(0, 1, 0), V(0, 0, 1)>>,
      <<V(0, 1, 0), V(1, 0, 0)>>,    <<V(1, 0, 0), V5(3, 4, 0)>>,
      <<V5(0, 3, 4), V(0, 0, 1)>>,   <<V5(4, -3, 0), V(0, 0, -1)>>,
      <<V(1, 0, 0), V(-1, 0, 0)>>,   <<V5(3, 4, 0), V5(-3, -4, 0)>> }

(* Pairs the debug assertions reject: a vector too long, too short, zero. *)
NonUnitPairs ==
    { <<V(1, 1, 0), V(0, 1, 0)>>,    <<V(1, 0, 0), V5(3, 0, 0)>>,
      <<V(0, 0, 0), V(0, 0, 1)>>,    <<V(2, 0, 0), V(-2, 0, 0)>> }

(* The vectors handed to rotate_vec / rotated_vec. *)
Vecs == { V(1, 0, 0), V(0, 1, 0), V(1, 1, 1), V(1, -2, 3) }

(* The rotors handed to append / appended.  The unit ones are third-turns  *)
(* about (1,1,1) and (1,-1,1): they do not commute, and products of them    *)
(* keep denominators of 1 and 2.                                            *)
UnitRotors ==
    { identity,
      Rot3f64(F(1, 2), F(1, 2), F(1, 2), F(1, 2)),
      Rot3f64(F(1, 2), F(-1, 2), F(1, 2), F(-1, 2)) }

NonUnitRotors == { Rot3f64(One, One, F(-1, 1), Zero) }

Rotors == UnitRotors \cup NonUnitRotors

(* What a.perpendicular() may return: any unit vector at right angles to a. *)
perpendicular(a) == { p \in UnitVecs : dot(a, p) = Zero }

(* ------------------------------- State -------------------------------- *)

VARIABLES
    debug,       \* cfg!(debug_assertions) of the build
    rotor,       \* the Rot3f64 the client holds
    depth,       \* in-place mutations applied to rotor since its construction
    unit_chain,  \* rotor came from identity() by append(unit rotor) and invert() only
    panicked,    \* a debug_assert! has stopped the program
    mat,         \* the matrix the client holds: a Mat2f64, a Mat3f64 or a Mat4f64
    vec,         \* the Vec4f64 the client holds
    last         \* the last call: its name, its arguments, its receiver before, its result

vars == <<debug, rotor, depth, unit_chain, panicked, mat, vec, last>>

ConstructorOps == {"identity", "new", "new_exact", "mat_new", "new_from_cols", "vec_new"}

MutatorOps == {"invert", "append", "normalize", "transpose", "mul_assign", "norm"}

QueryOps ==
    {"inverted", "appended", "rotate_vec", "rotated_vec", "rotation_mat",
     "transposed", "mul", "mul_vec", "normed", "cross", "cross_f32"}

(* Exploration order.  A constructor overwrites every variable it does not   *)
(* leave alone and reads none, so it is explored from freshly constructed    *)
(* rotors only; a query (a &self method) changes nothing but `last` and no   *)
(* operation reads `last`, so what can follow a query is explored from the   *)
(* state the query was made in.  Both leave the set of reachable states as   *)
(* it is without them.                                                       *)
Fresh == ~panicked /\ last.op \in ConstructorOps

InUse == ~panicked /\ last.op \notin QueryOps

Init ==
    /\ debug \in BOOLEAN
    /\ rotor = identity
    /\ depth = 0
    /\ unit_chain = TRUE
    /\ panicked = FALSE
    /\ mat = Mat4f64_identity
    /\ vec = Vec4f64_zero
    /\ last = [op |-> "identity", out |-> identity]

(* let rotor = Rot3f64::identity() *)
Identity ==
    /\ Fresh
    /\ rotor' = identity
    /\ depth' = 0
    /\ unit_chain' = TRUE
    /\ last' = [op |-> "identity", out |-> identity]
    /\ UNCHANGED <<debug, panicked>>
    /\ UNCHANGED <<mat, vec>>

(* A constructor returned res, or panicked. *)
Constructed(res) ==
    /\ panicked' = IsPanic(res)
    /\ rotor' = IF IsPanic(res) THEN rotor ELSE res
    /\ depth' = IF IsPanic(res) THEN depth ELSE 0
    /\ unit_chain' = IF IsPanic(res) THEN unit_chain ELSE FALSE
    /\ UNCHANGED debug
    /\ UNCHANGED <<mat, vec>>

(* let rotor = Rot3f64::new(a, b) *)
New(a, b) ==
    /\ Fresh
    /\ LET res == new(debug, a, b)
       IN  /\ Constructed(res)
           /\ last' = [op |-> "new", a |-> a, b |-> b, out |-> res]

(* let rotor = Rot3f64::new_exact(a, b) *)
NewExact(a, b, perp) ==
    /\ Fresh
    /\ LET res == new_exact(debug, a, b, perp)
       IN  /\ Constructed(res)
           /\ last' = [op |-> "new_exact", a |-> a, b |-> b, perp |-> perp, out |-> res]

(* rotor.invert() *)
Invert ==
    /\ InUse
    /\ depth < MaxDepth
    /\ rotor' = invert(rotor)
    /\ depth' = depth + 1
    /\ last' = [op |-> "invert", self |-> rotor, out |-> rotor']
    /\ UNCHANGED <<debug, unit_chain, panicked>>
    /\ UNCHANGED <<mat, vec>>

(* rotor.inverted() *)
Inverted ==
    /\ InUse
    /\ last' = [op |-> "inverted", self |-> rotor, out |-> inverted(rotor)]
    /\ UNCHANGED <<debug, rotor, depth, unit_chain, panicked>>
    /\ UNCHANGED <<mat, vec>>

(* rotor.append(r) *)
Append(r) ==
    /\ InUse
    /\ depth < MaxDepth
    /\ rotor' = append(rotor, r)
    /\ depth' = depth + 1
    /\ unit_chain' = (unit_chain /\ r \in UnitRotors)
    /\ last' = [op |-> "append", self |-> rotor, r |-> r, out |-> rotor']
    /\ UNCHANGED <<debug, panicked>>
    /\ UNCHANGED <<mat, vec>>

(* rotor.appended(r) *)
Appended(r) ==
    /\ InUse
    /\ last' = [op |-> "appended", self |-> rotor, r |-> r, out |-> appended(rotor, r)]
    /\ UNCHANGED <<debug, rotor, depth, unit_chain, panicked>>
    /\ UNCHANGED <<mat, vec>>

(* rotor.normalize() *)
Normalize ==
    /\ InUse
    /\ depth < MaxDepth
    /\ rotor' = normalize(rotor)
    /\ depth' = depth + 1
    /\ unit_chain' = FALSE
    /\ last' = [op |-> "normalize", self |-> rotor, out |-> rotor']
    /\ UNCHANGED <<debug, panicked>>
    /\ UNCHANGED <<mat, vec>>

(* let mut v = ...; rotor.rotate_vec(&mut v) *)
RotateVec(v) ==
    /\ InUse
    /\ last' = [op |-> "rotate_vec", self |-> rotor, v |-> v, out |-> rotate_vec(rotor, v)]
    /\ UNCHANGED <<debug, rotor, depth, unit_chain, panicked>>
    /\ UNCHANGED <<mat, vec>>

(* rotor.rotated_vec(v) *)
RotatedVec(v) ==
    /\ InUse
    /\ last' = [op |-> "rotated_vec", self |-> rotor, v |-> v, out |-> rotated_vec(rotor, v)]
    /\ UNCHANGED <<debug, rotor, depth, unit_chain, panicked>>
    /\ UNCHANGED <<mat, vec>>

(* rotor.rotation_mat() *)
RotationMat ==
    /\ InUse
    /\ last' = [op |-> "rotation_mat", self |-> rotor, out |-> rotation_mat(rotor)]
    /\ UNCHANGED <<debug, rotor, depth, unit_chain, panicked>>
    /\ UNCHANGED <<mat, vec>>

(* The arguments of the constructors.  new_exact evaluates the magnitude of  *)
(* its arguments only in a debug build and that of a + b only outside the    *)
(* antiparallel band; the six-digit NearMinusX is supplied where neither is  *)
(* evaluated.                                                                *)
NewArgs == UnitPairs \cup NonUnitPairs

NewExactArgs ==
    NewArgs \cup (IF debug THEN {} ELSE {<<V(1, 0, 0), NearMinusX>>})
            \cup {<<AlmostUnit, Opposite(AlmostUnit)>>}

(* The results a.perpendicular() may give in new_exact(a, b); a itself stands *)
(* for "not called".                                                          *)
PerpChoices(a, b) == IF is_antiparallel(a, b) THEN perpendicular(a) ELSE {a}

(* The rotors handed to append / appended: the fixed ones and, right after *)
(* its construction (as in test_append), the receiver itself.             *)
AppendArgs == Rotors \cup (IF depth = 0 THEN {rotor} ELSE {})

Next ==
    \/ Identity
    \/ (Fresh /\ \E ab \in NewArgs : New(ab[1], ab[2]))
    \/ (Fresh /\ \E ab \in NewExactArgs : \E perp \in PerpChoices(ab[1], ab[2]) :
                    NewExact(ab[1], ab[2], perp))
    \/ Invert
    \/ Inverted
    \/ (InUse /\ \E r \in AppendArgs : Append(r))
    \/ (InUse /\ \E r \in AppendArgs : Appended(r))
    \/ Normalize
    \/ (InUse /\ \E v \in Vecs : RotateVec(v))
    \/ (InUse /\ \E v \in Vecs : RotatedVec(v))
    \/ RotationMat

Spec == Init /\ [][Next]_vars

(* ---------------- Vectors and matrices: inputs and actions -------------- *)

I(k) == F(k, 1)

Row2(a, b) == <<I(a), I(b)>>

Row3(a, b, c) == <<I(a), I(b), I(c)>>

Row4(a, b, c, d) == <<I(a), I(b), I(c), I(d)>>

(* The matrices that are multiplied: two of each size, none symmetric, no    *)
(* two of a size commuting, one with a fractional entry.                    *)
Mats ==
    { << Row2(1, 2), Row2(3, 4) >>,
      << Row2(0, 1), Row2(-1, 2) >>,
      << Row3(1, 2, 0), Row3(0, 1, -1), Row3(2, 0, 1) >>,
      << Row3(0, 1, 0), Row3(2, 0, -1), Row3(1, 1, 1) >>,
      << Row4(1, 2, 0, -1), Row4(0, 1, 3, 0), Row4(2, 0, 1, 1), Row4(-1, 1, 0, 2) >>,
      << <<F(1, 2), Zero, I(2), Zero>>, Row4(0, -1, 0, 3), Row4(1, 1, 0, 0),
         Row4(0, 2, -1, 1) >> }

(* The arrays of the tests matrix_creation. *)
TestArrays ==
    { << Row2(1, 2), Row2(3, 4) >>,
      << Row3(1, 2, 3), Row3(4, 5, 6), Row3(7, 8, 9) >>,
      << Row4(1, 2, 3, 4), Row4(5, 6, 7, 8), Row4(9, 10, 11, 12),
         Row4(13, 14, 15, 16) >> }

(* The arrays handed to new and new_from_cols. *)
Arrays == Mats \cup TestArrays

(* The coords handed to Vec4f64::new and to a matrix as the vector. *)
Vec4s ==
    { Vec4f64_zero, Vec4f64_ones, Row4(4, 7, 5, 2),
      <<F(3, 5), Zero, F(-4, 5), Zero>> }

(* The operands of cross: those of the test cross_product, axes, a vector  *)
(* with itself, a fractional one.                                           *)
CrossPairs ==
    { <<V(4, 7, 5), V(2, -4, 3)>>,   <<V(2, -4, 3), V(4, 7, 5)>>,
      <<V(1, 0, 0), V(0, 1, 0)>>,    <<V(0, 0, 1), V(0, 1, 0)>>,
      <<V(1, -2, 3), V(1, -2, 3)>>,  <<V5(3, 4, 0), V(1, 1, 1)>> }

(* The coords of a Vec3f32 with the components of the Vec3f64 v. *)
Coords3(v) == <<v.x, v.y, v.z>>

(* The rotor with every component zero (the fields of Rot3f64 are public). *)
ZeroRotor == Rot3f64(Zero, Zero, Zero, Zero)

LinInit ==
    /\ debug = FALSE
    /\ rotor = ZeroRotor
    /\ depth = 0
    /\ unit_chain = FALSE
    /\ panicked = FALSE
    /\ mat = Mat4f64_identity
    /\ vec = Vec4f64_zero
    /\ last = [op |-> "vec_new", coords |-> Vec4f64_zero, out |-> Vec4f64_zero]

(* let mut mat = MatNf64::new(rows) *)
MatNew(rows) ==
    /\ Fresh
    /\ mat' = rows
    /\ last' = [op |-> "mat_new", rows |-> rows, out |-> mat']
    /\ UNCHANGED <<debug, rotor, depth, unit_chain, panicked, vec>>

(* let mut mat = MatNf64::new_from_cols(cols) *)
MatNewFromCols(cols) ==
    /\ Fresh
    /\ mat' = mat_new_from_cols(cols)
    /\ last' = [op |-> "new_from_cols", cols |-> cols, out |-> mat']
    /\ UNCHANGED <<debug, rotor, depth, unit_chain, panicked, vec>>

(* let mut vec = Vec4f64::new(coords) *)
VecNew(coords) ==
    /\ Fresh
    /\ vec' = Vec4f64_new_coords(coords)
    /\ last' = [op |-> "vec_new", coords |-> coords, out |-> vec']
    /\ UNCHANGED <<debug, rotor, depth, unit_chain, panicked, mat>>

(* mat.transposed() *)
Transposed ==
    /\ InUse
    /\ last' = [op |-> "transposed", self |-> mat, out |-> transposed(mat)]
    /\ UNCHANGED <<debug, rotor, depth, unit_chain, panicked, mat, vec>>

(* mat.transpose() *)
Transpose ==
    /\ InUse
    /\ depth < MaxDepth
    /\ mat' = transpose(mat)
    /\ depth' = depth + 1
    /\ last' = [op |-> "transpose", self |-> mat, out |-> mat']
    /\ UNCHANGED <<debug, rotor, unit_chain, panicked, vec>>

(* mat * b *)
MatMul(b) ==
    /\ InUse
    /\ Dim(b) = Dim(mat)
    /\ last' = [op |-> "mul", self |-> mat, b |-> b, out |-> mat_mul(mat, b)]
    /\ UNCHANGED <<debug, rotor, depth, unit_chain, panicked, mat, vec>>

(* mat *= rhs *)
MatMulAssign(rhs) ==
    /\ InUse
    /\ depth < MaxDepth
    /\ Dim(rhs) = Dim(mat)
    /\ mat' = mat_mul_assign(mat, rhs)
    /\ depth' = depth + 1
    /\ last' = [op |-> "mul_assign", self |-> mat, b |-> rhs, out |-> mat']
    /\ UNCHANGED <<debug, rotor, unit_chain, panicked, vec>>

(* mat * v, for a Mat4f64 *)
MatMulVec(v) ==
    /\ InUse
    /\ Dim(mat) = 4
    /\ last' = [op |-> "mul_vec", self |-> mat, v |-> v, out |-> Mat4f64_mul_vec(mat, v)]
    /\ UNCHANGED <<debug, rotor, depth, unit_chain, panicked, mat, vec>>

(* vec.norm() *)
Norm ==
    /\ InUse
    /\ depth < MaxDepth
    /\ vec' = norm(vec)
    /\ depth' = depth + 1
    /\ last' = [op |-> "norm", self |-> vec, out |-> vec']
    /\ UNCHANGED <<debug, rotor, unit_chain, panicked, mat>>

(* vec.normed() *)
Normed ==
    /\ InUse
    /\ last' = [op |-> "normed", self |-> vec, out |-> normed(vec)]
    /\ UNCHANGED <<debug, rotor, depth, unit_chain, panicked, mat, vec>>

(* a.cross(b) for Vec3f64 a, b.  cross reads nothing of the state, so it  *)
(* is explored from freshly constructed values only.                       *)
Cross(a, b) ==
    /\ Fresh
    /\ last' = [op |-> "cross", self |-> a, right |-> b, out |-> cross(a, b)]
    /\ UNCHANGED <<debug, rotor, depth, unit_chain, panicked, mat, vec>>

(* a.cross(b) for Vec3f32 a, b *)
CrossF32(a, b) ==
    /\ Fresh
    /\ last' = [op |-> "cross_f32", self |-> a, rhs |-> b, out |-> Vec3f32_cross(a, b)]
    /\ UNCHANGED <<debug, rotor, depth, unit_chain, panicked, mat, vec>>

(* The vector and matrix types, with the normalisation of a rotor beside   *)
(* that of a vector.                                                        *)
LinNext ==
    \/ (Fresh /\ \E rows \in Arrays : MatNew(rows))
    \/ (Fresh /\ \E cols \in Arrays : MatNewFromCols(cols))
    \/ (Fresh /\ \E coords \in Vec4s : VecNew(coords))
    \/ Transposed
    \/ Transpose
    \/ (InUse /\ \E b \in Mats : MatMul(b))
    \/ (InUse /\ \E rhs \in Mats : MatMulAssign(rhs))
    \/ (InUse /\ \E v \in Vec4s : MatMulVec(v))
    \/ Norm
    \/ Normed
    \/ (Fresh /\ \E ab \in CrossPairs : Cross(ab[1], ab[2]))
    \/ (Fresh /\ \E ab \in CrossPairs : CrossF32(Coords3(ab[1]), Coords3(ab[2])))
    \/ Normalize

LinAlg == LinInit /\ [][LinNext]_vars

(* ------------------------------ Claims -------------------------------- *)

ex == V(1, 0, 0)

ey == V(0, 1, 0)

(* v is a unit vector, exactly. *)
ExactUnit(v) == v = NearMinusX \/ dot(v, v) = One

(* self is a rotor of finite components and squared norm 1. *)
UnitRotor(self) == mag_sqrd(self) = One

(* C1: after self.append(r) or self.appended(r) the result rotates every    *)
(* vector as self first and r second: result.rotated_vec(v) equals          *)
(* r.rotated_vec(self.rotated_vec(v)).                                      *)
C1_SelfThenR ==
    last.op \in {"append", "appended"} =>
        \A v \in Vecs :
            rotated_vec(last.out, v) = rotated_vec(last.r, rotated_vec(last.self, v))

(* What the code does instead: the result rotates as r first, self second. *)
C1_RThenSelf ==
    last.op \in {"append", "appended"} =>
        \A v \in Vecs :
            rotated_vec(last.out, v) = rotated_vec(last.self, rotated_vec(last.r, v))

(* A constructor call on exactly unit vectors has returned a rotor. *)
Built(op) ==
    /\ last.op = op
    /\ ~IsPanic(last.out)
    /\ ExactUnit(last.a)
    /\ ExactUnit(last.b)

(* C2, as stated: for unit vectors a and b with b # -a, new_exact(a, b)     *)
(* rotates a onto b.                                                        *)
C2_NotOppositeOntoB ==
    (Built("new_exact") /\ last.b # Opposite(last.a)) =>
        rotated_vec(last.out, last.a) = last.b

(* C2, amended: for unit vectors a and b whose dot product lies outside the *)
(* band [-1.00001, -0.99999) that new_exact tests, new_exact(a, b) rotates  *)
(* a onto b; for a = (1,0,0), b = (0,1,0) the image of a is (0,1,0).        *)
C2_OutsideBandOntoB ==
    (Built("new_exact") /\ ~is_antiparallel(last.a, last.b)) =>
        /\ rotated_vec(last.out, last.a) = last.b
        /\ (last.a = ex /\ last.b = ey) => rotated_vec(last.out, ex) = V(0, 1, 0)

C2_Witness ==
    /\ Built("new_exact")
    /\ last.a = ex
    /\ last.b = ey
    /\ rotated_vec(rotor, ex) = ey

(* C3: for a unit vector a and b = -a, new_exact(a, b) rotates a onto -a,   *)
(* whichever unit vector perpendicular to a is substituted as the bisector. *)
C3_OppositeHalfTurn ==
    (Built("new_exact") /\ last.b = Opposite(last.a)) =>
        /\ rotated_vec(last.out, last.a) = Opposite(last.a)
        /\ \A p \in perpendicular(last.a) :
              rotated_vec(new_exact(debug, last.a, last.b, p), last.a) = Opposite(last.a)

C3_Witness ==
    /\ Built("new_exact")
    /\ last.a = V5(3, 4, 0)
    /\ last.b = V5(-3, -4, 0)
    /\ last.perp = V5(4, -3, 0)
    /\ Cardinality(perpendicular(last.a)) > 1

(* 2 * dot(a, b) * b - a, the mirror image of a across b. *)
Mirror(a, b) ==
    LET k == Mul(F(2, 1), dot(a, b))
    IN  Vec3f64_new(Sub(Mul(k, b.x), a.x), Sub(Mul(k, b.y), a.y), Sub(Mul(k, b.z), a.z))

(* C4: for unit vectors a and b, new(a, b) rotates a onto 2*dot(a,b)*b - a; *)
(* new((1,0,0), (0,1,0)) maps (1,0,0) to (-1,0,0).                          *)
C4_NewDoublesAngle ==
    Built("new") =>
        /\ rotated_vec(last.out, last.a) = Mirror(last.a, last.b)
        /\ (last.a = ex /\ last.b = ey) => rotated_vec(last.out, ex) = V(-1, 0, 0)

C4_Witness ==
    /\ Built("new")
    /\ last.a = ex
    /\ last.b = V5(3, 4, 0)
    /\ rotated_vec(rotor, ex) = Vec3f64_new(F(-7, 25), F(24, 25), Zero)

(* C5: for a unit vector a, new(a, a) leaves every vector unchanged under   *)
(* rotate_vec and rotated_vec.                                              *)
C5_NewSameIsNoRotation ==
    (Built("new") /\ last.a = last.b) =>
        \A v \in Vecs : rotate_vec(last.out, v) = v /\ rotated_vec(last.out, v) = v

C5_Witness ==
    /\ Built("new")
    /\ last.a = last.b
    /\ last.a = V5(3, 4, 0)

(* C6: appending a rotor R to itself gives the rotor that rotates as R      *)
(* applied twice; for R = new((1,0,0), (0,1,0)) it maps (1,0,0) to (1,0,0). *)
C6_SelfAppendIsTwice ==
    (last.op \in {"append", "appended"} /\ last.r = last.self) =>
        /\ \A v \in Vecs :
              rotated_vec(last.out, v) = rotated_vec(last.self, rotated_vec(last.self, v))
        /\ last.self = new(FALSE, ex, ey) => rotated_vec(last.out, ex) = ex

C6_Witness ==
    /\ last.op = "append"
    /\ last.r = last.self
    /\ last.self = new(FALSE, ex, V5(3, 4, 0))
    /\ rotor # last.self

(* C7: for a unit rotor R, R.inverted() (and R after invert()) undoes R on  *)
(* every vector, applied after R or before it.                              *)
C7_InverseUndoes ==
    (last.op \in {"inverted", "invert"} /\ UnitRotor(last.self)) =>
        \A v \in Vecs :
            /\ rotated_vec(last.out, rotated_vec(last.self, v)) = v
            /\ rotated_vec(last.self, rotated_vec(last.out, v)) = v

C7_Witness ==
    /\ last.op = "inverted"
    /\ UnitRotor(last.self)
    /\ last.self.zx # Zero
    /\ last.self.xy # Zero
    /\ rotated_vec(last.self, ex) # ex

(* C8: a rotor obtained from identity() by append(r) with unit rotors r and *)
(* by invert() has squared norm 1, and the squared norm of A.appended(B) is *)
(* the product of the squared norms of A and B.                             *)
C8_NormMultiplies ==
    /\ unit_chain => mag_sqrd(rotor) = One
    /\ last.op \in {"append", "appended"} =>
          mag_sqrd(last.out) = Mul(mag_sqrd(last.self), mag_sqrd(last.r))
    /\ last.op = "invert" => mag_sqrd(last.out) = mag_sqrd(last.self)

C8_Witness ==
    /\ unit_chain
    /\ depth = MaxDepth
    /\ last.op = "append"
    /\ last.self # identity
    /\ last.r # identity
    /\ rotor.xy # Zero
    /\ rotor.zx # Zero

(* C9: after normalize() on a rotor of finite non-zero magnitude the squared *)
(* norm is 1 and each component is the old one divided by the old magnitude, *)
(* so signs and mutual ratios are kept.                                      *)
C9_NormalizeRestoresUnit ==
    (last.op = "normalize" /\ IsFinite(mag_sqrd(last.self)) /\ mag_sqrd(last.self) # Zero) =>
        LET mag == Sqrt(mag_sqrd(last.self))
            old == last.self
            now == last.out
        IN  /\ mag_sqrd(now) = One
            /\ \A c \in {"s", "xy", "yz", "zx"} :
                  /\ Mul(now[c], mag) = old[c]
                  /\ Sign(now[c]) = Sign(old[c])
                  /\ \A e \in {"s", "xy", "yz", "zx"} :
                        Mul(now[c], old[e]) = Mul(now[e], old[c])

C9_Witness ==
    /\ last.op = "normalize"
    /\ IsFinite(mag_sqrd(last.self))
    /\ mag_sqrd(last.self) \notin {Zero, One}
    /\ Sqrt(mag_sqrd(last.self)).r # 1
    /\ last.self.yz.n < 0

(* Column j of the upper-left 3x3 block of m. *)
Col3(m, j) == Vec3f64_new(m[1][j], m[2][j], m[3][j])

(* C10: for a unit rotor the three columns of the upper-left 3x3 block of   *)
(* rotation_mat() are mutually orthogonal unit vectors, and the 4th row and *)
(* the 4th column are (0,0,0,1).                                            *)
C10_RotationMatOrthonormal ==
    (last.op = "rotation_mat" /\ UnitRotor(last.self)) =>
        LET m == last.out
        IN  /\ \A i, j \in 1..3 :
                  dot(Col3(m, i), Col3(m, j)) = IF i = j THEN One ELSE Zero
            /\ m[4] = <<Zero, Zero, Zero, One>>
            /\ <<m[1][4], m[2][4], m[3][4], m[4][4]>> = <<Zero, Zero, Zero, One>>

C10_Witness ==
    /\ last.op = "rotation_mat"
    /\ UnitRotor(last.self)
    /\ last.self.xy # Zero
    /\ last.self.zx # Zero
    /\ last.out[1][2] # Zero

(* C11: identity() returns the rotor (s=1, xy=0, yz=0, zx=0), and that     *)
(* rotor leaves every vector where it is, through rotated_vec and through   *)
(* rotate_vec.                                                              *)
C11_IdentityIsNoRotation ==
    /\ last.op = "identity" =>
           /\ last.out = [s |-> One, xy |-> Zero, yz |-> Zero, zx |-> Zero]
           /\ rotor = last.out
           /\ \A v \in Vecs : rotated_vec(last.out, v) = v
    /\ (last.op \in {"rotate_vec", "rotated_vec"}
            /\ last.self = [s |-> One, xy |-> Zero, yz |-> Zero, zx |-> Zero]) =>
           last.out = last.v

C11_Witness ==
    /\ last.op = "rotated_vec"
    /\ last.self = identity
    /\ last.v = V(1, -2, 3)
    /\ depth = 0

(* The rotor R with its three bivector components negated. *)
Conjugate(R) ==
    [s |-> R.s, xy |-> Neg(R.xy), yz |-> Neg(R.yz), zx |-> Neg(R.zx)]

(* C12: invert() negates xy, yz and zx and leaves s; inverted() returns    *)
(* that result and leaves the receiver as it was; a second invert()         *)
(* restores the rotor.                                                      *)
C12_InvertNegatesBivector ==
    /\ last.op = "invert" =>
           /\ rotor = Conjugate(last.self)
           /\ invert(rotor) = last.self
    /\ last.op = "inverted" =>
           /\ last.out = Conjugate(last.self)
           /\ rotor = last.self
           /\ inverted(last.out) = last.self

C12_Witness ==
    /\ last.op = "invert"
    /\ last.self.s # Zero
    /\ last.self.xy # Zero
    /\ last.self.yz # Zero
    /\ last.self.zx # Zero
    /\ rotor # last.self

(* The magnitude of v is outside [0.999, 1.001]. *)
OutsideNewBand(v) ==
    ~(LessEq(F(999, 1000), magnitude(v)) /\ LessEq(magnitude(v), F(1001, 1000)))

(* C13: new(a, b) with a or b of magnitude outside [0.999, 1.001] stops     *)
(* with the assertion failure and constructs no rotor in a build with      *)
(* debug assertions; without them it returns the rotor of the same formula  *)
(* and nothing signals the error.                                           *)
C13_NewChecksOnlyInDebug ==
    (last.op = "new" /\ (OutsideNewBand(last.a) \/ OutsideNewBand(last.b))) =>
        IF debug
        THEN /\ last.out = Panic
             /\ panicked
        ELSE /\ ~panicked
             /\ rotor = last.out
             /\ last.out =
                  [s  |-> dot(last.b, last.a),
                   xy |-> Sub(Mul(last.b.x, last.a.y), Mul(last.b.y, last.a.x)),
                   yz |-> Sub(Mul(last.b.y, last.a.z), Mul(last.b.z, last.a.y)),
                   zx |-> Sub(Mul(last.b.z, last.a.x), Mul(last.b.x, last.a.z))]

(* The debug build has stopped on a too short b. *)
C13_Witness ==
    /\ last.op = "new"
    /\ debug
    /\ panicked
    /\ ~OutsideNewBand(last.a)
    /\ OutsideNewBand(last.b)

(* The release build has returned a rotor that is not unit. *)
C13_WitnessRelease ==
    /\ last.op = "new"
    /\ ~debug
    /\ OutsideNewBand(last.a)
    /\ ~UnitRotor(last.out)

(* Every component of the Vec4f64 v is NaN. *)
AllNaN4(v) == \A i \in 1..4 : IsNaN(v[i])

(* C14: normalizing a zero value raises nothing and gives NaN in every     *)
(* component: norm() and normed() on the zero Vec4f64, normalize() on the   *)
(* zero rotor; normed() leaves the zero receiver as it was.                 *)
C14_ZeroNormalizesToNaN ==
    /\ (last.op = "norm" /\ last.self = <<Zero, Zero, Zero, Zero>>) =>
           /\ AllNaN4(vec)
           /\ ~panicked
    /\ (last.op = "normed" /\ last.self = <<Zero, Zero, Zero, Zero>>) =>
           /\ AllNaN4(last.out)
           /\ vec = <<Zero, Zero, Zero, Zero>>
           /\ ~panicked
    /\ (last.op = "normalize"
            /\ last.self = [s |-> Zero, xy |-> Zero, yz |-> Zero, zx |-> Zero]) =>
           /\ IsNaN(rotor.s) /\ IsNaN(rotor.xy) /\ IsNaN(rotor.yz) /\ IsNaN(rotor.zx)
           /\ ~panicked

(* norm() has run on the zero vector. *)
C14_Witness ==
    /\ last.op = "norm"
    /\ last.self = Vec4f64_zero
    /\ vec # last.self

(* normalize() has run on the zero rotor. *)
C14_WitnessRotor ==
    /\ last.op = "normalize"
    /\ last.self = ZeroRotor
    /\ rotor # ZeroRotor

(* normed() has run on the zero vector. *)
C14_WitnessNormed ==
    /\ last.op = "normed"
    /\ last.self = Vec4f64_zero
    /\ last.out # Vec4f64_zero

(* The array of the columns of the matrix m. *)
ColsOf(m) == [j \in DOMAIN m |-> [i \in DOMAIN m |-> m[i][j]]]

(* C15: new_from_cols(c)[i][j] is c[j][i] for every array c and all i, j,   *)
(* and new_from_cols of the columns of a matrix is new of its rows.         *)
C15_ColsAreTransposedIn ==
    /\ last.op = "new_from_cols" =>
           /\ mat = last.out
           /\ \A i, j \in DOMAIN last.cols : last.out[i][j] = last.cols[j][i]
    /\ \A i, j \in DOMAIN mat : mat_new_from_cols(ColsOf(mat))[i][j] = mat[i][j]

C15_Witness ==
    /\ last.op = "new_from_cols"
    /\ Dim(last.cols) = 3
    /\ last.cols[1][2] # last.cols[2][1]
    /\ last.out # last.cols

(* C16: transposed()[i][j] is M[j][i], transposing twice gives M back, and  *)
(* transpose() leaves in the receiver what transposed() returns.            *)
C16_TransposeInvolution ==
    /\ last.op = "transposed" =>
           /\ \A i, j \in DOMAIN mat : last.out[i][j] = last.self[j][i]
           /\ transposed(last.out) = last.self
           /\ mat = last.self
    /\ last.op = "transpose" =>
           /\ mat = transposed(last.self)
           /\ \A i, j \in DOMAIN mat : mat[i][j] = last.self[j][i]
           /\ transpose(mat) = last.self

C16_Witness ==
    /\ last.op = "transpose"
    /\ Dim(mat) = 4
    /\ mat # last.self
    /\ depth = 2

(* The sum of the f64 values t[1], ..., t[n], from the left. *)
RECURSIVE SumTo(_, _)
SumTo(t, n) == IF n = 1 THEN t[1] ELSE Add(SumTo(t, n - 1), t[n])

(* Cell (i, j) of the standard product of the matrices a and b. *)
ProductCell(a, b, i, j) ==
    SumTo([k \in DOMAIN a |-> Mul(a[i][k], b[k][j])], Dim(a))

(* C17: (A * B)[i][j] is the sum over k of A[i][k] * B[k][j] for the 2x2,   *)
(* 3x3 and 4x4 matrices, and A *= B leaves A * B in A.                      *)
C17_MatMulIsStandard ==
    /\ last.op = "mul" =>
           /\ \A i, j \in DOMAIN last.self :
                  last.out[i][j] = ProductCell(last.self, last.b, i, j)
           /\ mat = last.self
    /\ last.op = "mul_assign" =>
           /\ \A i, j \in DOMAIN last.self :
                  mat[i][j] = ProductCell(last.self, last.b, i, j)
           /\ mat = mat_mul(last.self, last.b)

C17_Witness ==
    /\ last.op = "mul_assign"
    /\ Dim(mat) = 2
    /\ depth = 2
    /\ mat # mat_mul(last.b, last.self)

C17_Witness3 ==
    /\ last.op = "mul"
    /\ Dim(mat) = 3
    /\ last.out # mat_mul(last.b, last.self)

C17_Witness4 ==
    /\ last.op = "mul"
    /\ Dim(mat) = 4
    /\ last.out # mat_mul(last.b, last.self)

(* C18: (A * B) * C = A * (B * C) for matrices of one size. *)
C18_MatMulAssociative ==
    last.op \in {"mul", "mul_assign"} =>
        \A c \in Mats :
            Dim(c) = Dim(last.self) =>
                mat_mul(last.out, c) = mat_mul(last.self, mat_mul(last.b, c))

C18_Witness ==
    /\ last.op = "mul"
    /\ Dim(mat) = 3
    /\ depth = 1
    /\ last.self \notin Arrays
    /\ \E c \in Mats :
           /\ Dim(c) = 3
           /\ c # last.b
           /\ mat_mul(last.out, c) # mat_mul(c, last.out)

(* C19: (M * v)[i] is the sum over j of M[i][j] * v[j]: v is a column. *)
C19_MatVecIsColumn ==
    last.op = "mul_vec" =>
        \A i \in 1..4 :
            last.out[i] = SumTo([j \in 1..4 |-> Mul(last.self[i][j], last.v[j])], 4)

C19_Witness ==
    /\ last.op = "mul_vec"
    /\ last.self # transposed(last.self)
    /\ last.v = Row4(4, 7, 5, 2)
    /\ last.out # Mat4f64_mul_vec(transposed(last.self), last.v)

(* C20: cross(a, b) is (a.y*b.z - a.z*b.y, a.z*b.x - a.x*b.z,              *)
(* a.x*b.y - a.y*b.x), and it is the negation, component by component, of   *)
(* cross(b, a); for Vec3f64 and for Vec3f32.                                *)
C20_CrossRightHanded ==
    /\ last.op = "cross" =>
           LET a == last.self
               b == last.right
           IN  /\ last.out.x = Sub(Mul(a.y, b.z), Mul(a.z, b.y))
               /\ last.out.y = Sub(Mul(a.z, b.x), Mul(a.x, b.z))
               /\ last.out.z = Sub(Mul(a.x, b.y), Mul(a.y, b.x))
               /\ last.out = Opposite(cross(b, a))
    /\ last.op = "cross_f32" =>
           LET a == last.self
               b == last.rhs
               c == Vec3f32_cross(b, a)
           IN  /\ last.out[1] = Sub(Mul(a[2], b[3]), Mul(a[3], b[2]))
               /\ last.out[2] = Sub(Mul(a[3], b[1]), Mul(a[1], b[3]))
               /\ last.out[3] = Sub(Mul(a[1], b[2]), Mul(a[2], b[1]))
               /\ last.out = <<Neg(c[1]), Neg(c[2]), Neg(c[3])>>

(* The operands of the test cross_product, with its result. *)
C20_Witness ==
    /\ last.op = "cross"
    /\ last.self = V(4, 7, 5)
    /\ last.right = V(2, -4, 3)
    /\ last.out = V(41, -2, -30)

C20_WitnessF32 ==
    /\ last.op = "cross_f32"
    /\ last.out = <<I(41), I(-2), I(-30)>>

(* C21: A.appended(B).appended(C) equals A.appended(B.appended(C)),         *)
(* component for component.                                                 *)
C21_AppendAssociative ==
    last.op \in {"append", "appended"} =>
        \A c \in Rotors :
            appended(last.out, c) = appended(last.self, appended(last.r, c))

(* A, B and some C are three rotors of which no two commute. *)
C21_Witness ==
    /\ last.op = "appended"
    /\ depth = 2
    /\ last.out # appended(last.r, last.self)
    /\ \E c \in Rotors :
           /\ appended(c, last.r) # appended(last.r, c)
           /\ appended(c, last.out) # appended(last.out, c)

(* The third-turns about (1, 1, 1) and about (1, -1, 1). *)
TurnA == Rot3f64(F(1, 2), F(1, 2), F(1, 2), F(1, 2))

TurnB == Rot3f64(F(1, 2), F(-1, 2), F(1, 2), F(-1, 2))

(* C22: there are rotors A and B, the two third-turns, for which            *)
(* A.appended(B) is not B.appended(A) and the two send a vector to          *)
(* different places.                                                        *)
C22_AppendNotCommutative ==
    (last.op \in {"append", "appended"} /\ last.self = TurnA /\ last.r = TurnB) =>
        /\ last.out # appended(last.r, last.self)
        /\ \E v \in Vecs :
               rotated_vec(last.out, v) # rotated_vec(appended(last.r, last.self), v)

C22_Witness ==
    /\ last.op = "append"
    /\ last.self = TurnA
    /\ last.r = TurnB
    /\ rotor = last.out
    /\ rotor # appended(TurnB, TurnA)

(* C23: the squared magnitude of R.rotated_vec(v) is                        *)
(* (s*s + xy*xy + yz*yz + zx*zx)^2 times that of v, so that a unit rotor    *)
(* keeps the length and any other scales it; the rotor is not modified.     *)
C23_RotateScalesByNormSquared ==
    last.op \in {"rotate_vec", "rotated_vec"} =>
        /\ dot(last.out, last.out) =
               Mul(Mul(mag_sqrd(last.self), mag_sqrd(last.self)), dot(last.v, last.v))
        /\ UnitRotor(last.self) => dot(last.out, last.out) = dot(last.v, last.v)
        /\ rotor = last.self

(* A rotor of squared norm neither 0 nor 1 has changed the length of v. *)
C23_Witness ==
    /\ last.op = "rotated_vec"
    /\ IsFinite(mag_sqrd(last.self))
    /\ mag_sqrd(last.self) # One
    /\ mag_sqrd(last.self) # Zero
    /\ last.self.xy # Zero
    /\ dot(last.out, last.out) # dot(last.v, last.v)

(* A unit rotor has turned v and kept its length. *)
C23_WitnessUnit ==
    /\ last.op = "rotate_vec"
    /\ UnitRotor(last.self)
    /\ last.out # last.v

(* The values of w in the column vector (x, y, z, w). *)
Ws == {Zero, One, F(-3, 2)}

(* C24: for every rotor R, unit or not, every vector v = (x, y, z) and      *)
(* every w, R.rotation_mat() * (x, y, z, w) is R.rotated_vec(v) followed    *)
(* by w.                                                                    *)
C24_MatrixIsSandwich ==
    last.op = "rotation_mat" =>
        \A v \in Vecs : \A w \in Ws :
            LET rv == rotated_vec(last.self, v)
            IN  Mat4f64_mul_vec(last.out, <<v.x, v.y, v.z, w>>) = <<rv.x, rv.y, rv.z, w>>

(* The matrix of a rotor that is not unit and turns about no axis of the    *)
(* frame.                                                                   *)
C24_Witness ==
    /\ last.op = "rotation_mat"
    /\ IsFinite(mag_sqrd(last.self))
    /\ ~UnitRotor(last.self)
    /\ last.self.xy # Zero
    /\ last.self.yz # Zero
    /\ last.out # transposed(last.out)

(* Every component of the rotor R is a number: neither NaN nor infinite. *)
FiniteRotor(R) == IsFinite(R.s) /\ IsFinite(R.xy) /\ IsFinite(R.yz) /\ IsFinite(R.zx)

HasNaN(v) == IsNaN(v.x) \/ IsNaN(v.y) \/ IsNaN(v.z)

(* C26: a pair (a, b) with a + b = 0 that passes the magnitude check of     *)
(* new_exact takes the branch that substitutes the perpendicular, so that   *)
(* a + b is not divided by its zero magnitude and no NaN bisector reaches   *)
(* new.                                                                     *)
C26_OppositeTakesPerpendicular ==
    (last.op = "new_exact"
        /\ vec_add(last.a, last.b) = Vec3f64_new(Zero, Zero, Zero)
        /\ new_exact_assert(last.a, last.b)) =>
        /\ is_antiparallel(last.a, last.b)
        /\ ~HasNaN(bisector(last.a, last.b, last.perp))

(* What does hold: the perpendicular is substituted when, besides, the dot  *)
(* product of a and b lies in -1.00001..-0.99999.                           *)
C26_InBandTakesPerpendicular ==
    (last.op = "new_exact"
        /\ vec_add(last.a, last.b) = Vec3f64_new(Zero, Zero, Zero)
        /\ is_antiparallel(last.a, last.b)) =>
        /\ bisector(last.a, last.b, last.perp) = last.perp
        /\ ~HasNaN(bisector(last.a, last.b, last.perp))

(* new_exact(a, -a) has divided 0 by 0 on a pair its assertion accepts. *)
C26_DividedByZero ==
    /\ last.op = "new_exact"
    /\ last.a = AlmostUnit
    /\ last.b = Opposite(AlmostUnit)
    /\ new_exact_assert(last.a, last.b)
    /\ magnitude(vec_add(last.a, last.b)) = Zero
    /\ HasNaN(bisector(last.a, last.b, last.perp))
    /\ IF debug THEN panicked ELSE IsNaN(rotor.s)

(* C27: the rotor new(a, b) returns has the squared norm                    *)
(* s*s + xy*xy + yz*yz + zx*zx = |a|^2 * |b|^2; for unit a and b it is a    *)
(* unit rotor.                                                              *)
C27_NewNormIsProduct ==
    (last.op = "new" /\ ~IsPanic(last.out)) =>
        /\ mag_sqrd(last.out) = Mul(dot(last.a, last.a), dot(last.b, last.b))
        /\ (dot(last.a, last.a) = One /\ dot(last.b, last.b) = One) =>
               mag_sqrd(last.out) = One

(* new has built a rotor of squared norm 2 from a = (1, 1, 0), b = (0, 1, 0). *)
C27_Witness ==
    /\ last.op = "new"
    /\ ~IsPanic(last.out)
    /\ rotor = last.out
    /\ dot(last.a, last.a) = F(2, 1)
    /\ dot(last.b, last.b) = One
    /\ mag_sqrd(last.out) = F(2, 1)

(* new has built a unit rotor with a bivector off the xy plane from unit    *)
(* vectors.                                                                 *)
C27_WitnessUnit ==
    /\ last.op = "new"
    /\ ~IsPanic(last.out)
    /\ dot(last.a, last.a) = One
    /\ dot(last.b, last.b) = One
    /\ last.out.yz # Zero
    /\ last.out.s # Zero
    /\ mag_sqrd(last.out) = One

(* C28: identity() is neutral on both sides of appended:                    *)
(* R.appended(identity()) = R and identity().appended(R) = R.               *)
C28_IdentityIsNeutral ==
    last.op \in {"append", "appended"} =>
        /\ (last.r = identity => last.out = last.self)
        /\ (last.self = identity => last.out = last.r)
        /\ appended(last.self, identity) = last.self
        /\ appended(identity, last.self) = last.self
        /\ appended(last.out, identity) = last.out
        /\ appended(identity, last.out) = last.out

(* identity() has been appended to a rotor that is neither unit nor in a    *)
(* coordinate plane.                                                        *)
C28_Witness ==
    /\ last.op \in {"append", "appended"}
    /\ last.r = identity
    /\ last.self # identity
    /\ mag_sqrd(last.self) # One
    /\ last.self.xy # Zero /\ last.self.yz # Zero
    /\ last.out = last.self

(* A rotor other than identity() has been appended to identity(). *)
C28_WitnessLeft ==
    /\ last.op \in {"append", "appended"}
    /\ last.self = identity
    /\ last.r # identity
    /\ last.out = last.r

(* C29: for a rotor R of finite components, R.appended(R.inverted()) and    *)
(* R.inverted().appended(R) are both (s*s + xy*xy + yz*yz + zx*zx, 0, 0, 0), *)
(* which is identity() for a unit R.                                        *)
C29_InverseCancels ==
    (last.op \in {"inverted", "invert"} /\ FiniteRotor(last.self)) =>
        LET n == Rot3f64(mag_sqrd(last.self), Zero, Zero, Zero)
        IN  /\ appended(last.self, last.out) = n
            /\ appended(last.out, last.self) = n
            /\ mag_sqrd(last.self) = One => n = identity

(* A rotor of squared norm other than 1, with every bivector component set, *)
(* has been inverted.                                                       *)
C29_Witness ==
    /\ last.op \in {"inverted", "invert"}
    /\ FiniteRotor(last.self)
    /\ last.self.xy # Zero /\ last.self.yz # Zero /\ last.self.zx # Zero
    /\ last.self.s # Zero
    /\ mag_sqrd(last.self) # One
    /\ last.out # last.self

(* A unit rotor with every bivector component set has been inverted, and    *)
(* the product is identity().                                               *)
C29_WitnessUnit ==
    /\ last.op \in {"inverted", "invert"}
    /\ last.self.xy # Zero /\ last.self.yz # Zero /\ last.self.zx # Zero
    /\ mag_sqrd(last.self) = One
    /\ appended(last.self, last.out) = identity

(* C30: new(b, a) is new(a, b).inverted(), component for component; where   *)
(* the debug assertion stops new(a, b) it stops new(b, a).                  *)
C30_SwapIsInverse ==
    last.op = "new" =>
        new(debug, last.b, last.a) =
            IF IsPanic(last.out) THEN Panic ELSE inverted(last.out)

(* new has built a rotor with a bivector part; with the arguments swapped   *)
(* it builds another rotor.                                                 *)
C30_Witness ==
    /\ last.op = "new"
    /\ ~IsPanic(last.out)
    /\ last.out.yz # Zero
    /\ last.out.s # Zero
    /\ new(debug, last.b, last.a) # last.out
    /\ new(debug, last.b, last.a) = inverted(last.out)

====
